---- MODULE Spec2Model ----
(***************************************************************************)
(* The in-loop deblocking filter of the HEIC decoder (src/hevc/deblock.rs)  *)
(* as a state machine.  One behaviour is one call of                        *)
(* apply_deblocking_filter: the state holds the frame, the parameter sets,  *)
(* the slice header, the block metadata, the deblocking context and the     *)
(* position of the call inside its loops.                                   *)
(***************************************************************************)
EXTENDS Integers, Sequences, FiniteSets, TLC

VARIABLES
    frame,      \* DecodedFrame: width, height, y_plane, cb_plane, cr_plane
    sps,        \* Sps: the two log2 fields that give the CTB size
    pps,        \* Pps: pps_beta_offset_div2, pps_tc_offset_div2
    header,     \* SliceHeader: the two deblocking flags
    metadata,   \* DeblockMetadata: split_transform, pred_mode, nonzero_coeff, stride
    ctx,        \* DeblockingContext: four per-4x4 tables and their stride
    pc,         \* the statement the call is at
    ctb_x,      \* loop variable of apply_deblocking_filter
    ctb_y,      \* loop variable of apply_deblocking_filter
    x,          \* loop variable of the filter loops (CTB-local)
    y,          \* loop variable of the filter loops (CTB-local)
    input,      \* the seeds the pre-filter planes and the metadata were drawn from
    log,        \* history: the steps started so far, <<ctb_x, ctb_y, step>>
    last,       \* history: what the last filter-loop iteration did
    hTouched,   \* history: Y indices read or written by horizontal-edge luma steps
    vLate,      \* history: Y indices written by a vertical-edge luma step after that
    container,  \* heif::Container: item_infos, primary item id, items with data and hvcC
    calls       \* HeicDecoder::decode and ::decode_to_frame: statement, locals, result

vars == <<frame, sps, pps, header, metadata, ctx, pc, ctb_x, ctb_y, x, y,
          input, log, last, hTouched, vLate, container, calls>>

----------------------------------------------------------------------------
(* Bounds of the model. *)

\* every picture of 1..MaxWidth x 1..MaxHeight is filtered
MaxWidth == 18
MaxHeight == 18

----------------------------------------------------------------------------
(* Arithmetic of the source language. *)

Min(a, b) == IF a < b THEN a ELSE b

\* i32::clamp / usize::clamp
Clamp(v, lo, hi) == IF v < lo THEN lo ELSE IF v > hi THEN hi ELSE v

\* i32 division: truncates toward zero
DivT(a, b) == IF a >= 0 THEN a \div b ELSE -((-a) \div b)

\* u32::div_ceil
DivCeil(a, b) == (a + b - 1) \div b

\* usize::saturating_sub / u32::saturating_sub
SatSub(a, b) == IF a >= b THEN a - b ELSE 0

\* (0..n).step_by(s)
StepBy(n, s) == {k \in 0..(n - 1) : k % s = 0}

\* EdgeType
Vertical == "Vertical"
Horizontal == "Horizontal"

----------------------------------------------------------------------------
(* The threshold tables (0-based in the source, 1-based tuples here). *)

BETA_TABLE ==
    << 0, 0, 0, 0, 0, 0, 0, 0, 0, 0, 0, 0, 0, 0, 0, 0, 6, 7, 8, 9, 10, 11, 12,
       13, 14, 15, 16, 17, 18, 20, 22, 24, 26, 28, 30, 32, 34, 36, 38, 40, 42,
       44, 46, 48, 50, 52, 54, 56, 58, 60, 62, 64 >>

TC_TABLE ==
    << 0, 0, 0, 0, 0, 0, 0, 0, 0, 0, 0, 0, 0, 0, 0, 0, 0, 0, 1, 1, 1, 1, 1, 1,
       1, 1, 1, 2, 2, 2, 2, 3, 3, 3, 3, 4, 4, 4, 5, 5, 6, 6, 7, 8, 9, 10, 11,
       13, 14, 16, 18, 20, 22, 24 >>

\* the index for beta with a base QP of 26, the initial QP of a slice, for the 0
QpL_sliceQp(p) == Clamp(26 + p.pps_beta_offset_div2 * 2, 0, 51)

\* the table index the luma and the chroma loop compute for beta
QpL(p) == Clamp(0 + p.pps_beta_offset_div2 * 2, 0, 51)

\* the tc index without the constant 2
TcIdx_noPlus2(p) == Clamp(QpL(p) + p.pps_tc_offset_div2 * 2, 0, 53)

\* the table index the luma and the chroma loop compute for tc
TcIdx(p) == Clamp(QpL(p) + p.pps_tc_offset_div2 * 2 + 2, 0, 53)

Beta(p) == BETA_TABLE[QpL(p) + 1]

TcVal(p) == TC_TABLE[TcIdx(p) + 1]

\* both table reads are inside the tables
TableIdxOk(p) == QpL(p) + 1 \in DOMAIN BETA_TABLE /\ TcIdx(p) + 1 \in DOMAIN TC_TABLE

----------------------------------------------------------------------------
(* DeblockingContext. *)

Zeros(n) == [i \in 0..(n - 1) |-> 0]

\* DeblockingContext::new with `width / 4` for `width.div_ceil(4)`: the partial cells
\* of the last column and row get no entry
DeblockingContext_new_floor(width, height) ==
    LET width_4x4 == width \div 4
        height_4x4 == height \div 4
        size == width_4x4 * height_4x4
    IN  [ver_edge_flags |-> Zeros(size), hor_edge_flags |-> Zeros(size),
         ver_bs |-> Zeros(size), hor_bs |-> Zeros(size), stride |-> width_4x4]

DeblockingContext_new(width, height) ==
    LET width_4x4 == DivCeil(width, 4)
        height_4x4 == DivCeil(height, 4)
        size == width_4x4 * height_4x4
    IN  [ver_edge_flags |-> Zeros(size), hor_edge_flags |-> Zeros(size),
         ver_bs |-> Zeros(size), hor_bs |-> Zeros(size), stride |-> width_4x4]

\* DeblockingContext::idx and DeblockMetadata::idx
idx(stride, px, py) == (py \div 4) * stride + (px \div 4)

\* a clear that resets the edge flags and leaves the bS tables
clear_flagsOnly(c) ==
    [c EXCEPT !.ver_edge_flags = Zeros(Cardinality(DOMAIN @)),
              !.hor_edge_flags = Zeros(Cardinality(DOMAIN @))]

clear(c) ==
    [c EXCEPT !.ver_edge_flags = Zeros(Cardinality(DOMAIN @)),
              !.hor_edge_flags = Zeros(Cardinality(DOMAIN @)),
              !.ver_bs = Zeros(Cardinality(DOMAIN @)),
              !.hor_bs = Zeros(Cardinality(DOMAIN @))]

EdgeFlags(c, edge_type) ==
    IF edge_type = Vertical THEN c.ver_edge_flags ELSE c.hor_edge_flags

Bs(c, edge_type) == IF edge_type = Vertical THEN c.ver_bs ELSE c.hor_bs

----------------------------------------------------------------------------
(* The inputs of a call.  The planes and the metadata grid are built by the *)
(* decoding stages that run before the filter; their sizes are those of the *)
(* data model: Y is width x height, Cb and Cr are ceil(width/2) x           *)
(* ceil(height/2), the metadata grid is ceil(width/4) x ceil(height/4).     *)

ChromaWidth(width) == DivCeil(width, 2)

ChromaHeight(height) == DivCeil(height, 2)

\* a pre-filter sample of plane `plane` (0 = Y, 1 = Cb, 2 = Cr), always in 0..255
GenSample(seed, plane, col, row) ==
    CASE seed = 0 -> (37 * col + 101 * row + 53 * plane + 11) % 256
      [] seed = 1 -> 255 * ((col + row + plane) % 2)
      [] OTHER -> 100 + 20 * (((col \div 4) + (row \div 4)) % 2)

MakePlane(w, h, seed, plane) ==
    [i \in 0..(w * h - 1) |-> GenSample(seed, plane, i % w, i \div w)]

DecodedFrame_new(width, height, seed) ==
    [width |-> width, height |-> height,
     y_plane |-> MakePlane(width, height, seed, 0),
     cb_plane |-> MakePlane(ChromaWidth(width), ChromaHeight(height), seed, 1),
     cr_plane |-> MakePlane(ChromaWidth(width), ChromaHeight(height), seed, 2)]

\* prediction mode of the 4x4 cell (cx, cy): 0 = inter, 1 = intra
GenPredMode(kind, cx, cy) ==
    CASE kind = "intra" -> 1
      [] kind = "mixed" -> IF (cx + 2 * cy) % 3 = 0 THEN 1 ELSE 0
      [] OTHER -> 0

GenNonzeroCoeff(kind, cx, cy) ==
    CASE kind = "coded" -> TRUE
      [] kind = "mixed" -> (cx + cy) % 2 = 0
      [] OTHER -> FALSE

GenSplitTransform(kind, cx, cy) ==
    CASE kind = "coded" -> TRUE
      [] kind = "mixed" -> cx % 2 = 1
      [] OTHER -> FALSE

\* DeblockMetadata::new followed by the setters the partitioning stage calls
DeblockMetadata_new(width, height, kind) ==
    LET width_4x4 == DivCeil(width, 4)
        height_4x4 == DivCeil(height, 4)
        size == width_4x4 * height_4x4
    IN  [split_transform |->
             [i \in 0..(size - 1) |-> GenSplitTransform(kind, i % width_4x4, i \div width_4x4)],
         pred_mode |->
             [i \in 0..(size - 1) |-> GenPredMode(kind, i % width_4x4, i \div width_4x4)],
         nonzero_coeff |->
             [i \in 0..(size - 1) |-> GenNonzeroCoeff(kind, i % width_4x4, i \div width_4x4)],
         stride |-> width_4x4]

\* "skip": all inter, nothing coded; "coded": all inter, coefficients everywhere;
\* "intra": all intra; "mixed": all three kinds of cell
MetaKinds == {"skip", "coded", "intra", "mixed"}

Seeds == {0, 1, 2}

\* CTB sizes 16, 32 and 64
SpsSet ==
    {[log2_min_luma_coding_block_size_minus3 |-> 1, log2_diff_max_min_luma_coding_block_size |-> 0],
     [log2_min_luma_coding_block_size_minus3 |-> 0, log2_diff_max_min_luma_coding_block_size |-> 2],
     [log2_min_luma_coding_block_size_minus3 |-> 1, log2_diff_max_min_luma_coding_block_size |-> 2]}

\* <<pps_beta_offset_div2, pps_tc_offset_div2>>: tc = 0, 1, 10, 24 and 0
OffsetPairs == {<<0, 0>>, <<6, 6>>, <<26, -4>>, <<30, 30>>, <<-7, -7>>}

\* pictures of one CTB, of several CTBs in each direction, of widths that are
\* odd or no multiple of 4, for each CTB size
KeyDims ==
    {<<MaxWidth, MaxHeight>>, <<MaxWidth - 1, 10>>, <<10, MaxHeight - 1>>, <<9, 10>>,
     <<16, 16>>, <<33, 10>>, <<65, 2>>, <<2, 65>>}

\* every picture size up to the bounds, under the inputs that filter the most
GridInputs ==
    [width : 1..MaxWidth, height : 1..MaxHeight, sps : SpsSet,
     disabled : {FALSE}, across : {TRUE}, offsets : {<<26, -4>>},
     kind : {"mixed"}, seed : {0}]

\* every combination of flags, offsets, metadata and samples on the key sizes
FullInputs ==
    {[width |-> d[1], height |-> d[2], sps |-> s, disabled |-> f[1], across |-> f[2],
      offsets |-> o, kind |-> k, seed |-> sd] :
        d \in KeyDims, s \in SpsSet, f \in {<<TRUE, TRUE>>, <<FALSE, TRUE>>, <<FALSE, FALSE>>},
        o \in OffsetPairs, k \in MetaKinds, sd \in Seeds}

\* the range of pps_beta_offset_div2 and pps_tc_offset_div2 in a conforming stream
LegalOffsets == (-6..6) \X (-6..6)

\* every pair of legal offsets, on a picture of two CTBs
LegalInputs ==
    [width : {17}, height : {10},
     sps : {[log2_min_luma_coding_block_size_minus3 |-> 1,
             log2_diff_max_min_luma_coding_block_size |-> 0]},
     disabled : {FALSE}, across : {TRUE}, offsets : LegalOffsets,
     kind : {"intra", "mixed"}, seed : {0, 1}]

\* every picture size up to the bounds under the default offsets
DefaultInputs ==
    [width : 1..MaxWidth, height : 1..MaxHeight,
     sps : {[log2_min_luma_coding_block_size_minus3 |-> 1,
             log2_diff_max_min_luma_coding_block_size |-> 0]},
     disabled : {FALSE}, across : {TRUE}, offsets : {<<0, 0>>},
     kind : {"mixed"}, seed : {0}]

Inputs == GridInputs \cup FullInputs \cup LegalInputs \cup DefaultInputs

----------------------------------------------------------------------------
(* DeblockMetadata getters. *)

get_split_transform(md, px, py) == md.split_transform[idx(md.stride, px, py)]

get_pred_mode(md, px, py) == md.pred_mode[idx(md.stride, px, py)]

get_nonzero_coeff(md, px, py) == md.nonzero_coeff[idx(md.stride, px, py)]

----------------------------------------------------------------------------
(* Edge marking and boundary strength. *)

\* is_slice_or_tile_boundary that finds no boundary in a single-slice picture
is_slice_or_tile_boundary_none(h) == FALSE

is_slice_or_tile_boundary(h) == ~h.slice_loop_filter_across_slices_enabled_flag

\* the marking loop on the 4-sample grid, where the transform-split flag decides
MarkedCells_tuGrid(md, x0, y0, width, height, edge_type, filter_outer_edge) ==
    IF edge_type = Vertical
    THEN {<<x0 + c[1], y0 + c[2]>> :
            c \in {d \in StepBy(width, 4) \X StepBy(height, 4) :
                     IF d[1] = 0
                     THEN filter_outer_edge
                     ELSE d[1] % 8 = 0 \/ get_split_transform(md, x0 + d[1], y0 + d[2])}}
    ELSE {<<x0 + c[1], y0 + c[2]>> :
            c \in {d \in StepBy(width, 4) \X StepBy(height, 4) :
                     IF d[2] = 0
                     THEN filter_outer_edge
                     ELSE d[2] % 8 = 0 \/ get_split_transform(md, x0 + d[1], y0 + d[2])}}

\* the cells <<abs_x, abs_y>> for which the marking loop finds should_mark true
MarkedCells(md, x0, y0, width, height, edge_type, filter_outer_edge) ==
    IF edge_type = Vertical
    THEN {<<x0 + c[1], y0 + c[2]>> :
            c \in {d \in StepBy(width, 8) \X StepBy(height, 4) :
                     IF d[1] = 0
                     THEN filter_outer_edge
                     ELSE d[1] % 8 = 0 \/ get_split_transform(md, x0 + d[1], y0 + d[2])}}
    ELSE {<<x0 + c[1], y0 + c[2]>> :
            c \in {d \in StepBy(width, 4) \X StepBy(height, 8) :
                     IF d[2] = 0
                     THEN filter_outer_edge
                     ELSE d[2] % 8 = 0 \/ get_split_transform(md, x0 + d[1], y0 + d[2])}}

mark_edges_for_ctb(c, md, x0, y0, width, height, edge_type, filter_outer_edge) ==
    LET marked == {idx(c.stride, m[1], m[2]) :
                     m \in MarkedCells(md, x0, y0, width, height, edge_type, filter_outer_edge)}
    IN  IF edge_type = Vertical
        THEN [c EXCEPT !.ver_edge_flags = [i \in DOMAIN @ |-> IF i \in marked THEN 1 ELSE @[i]]]
        ELSE [c EXCEPT !.hor_edge_flags = [i \in DOMAIN @ |-> IF i \in marked THEN 1 ELSE @[i]]]

\* every set_edge_flag of the marking loop indexes inside the table
MarkIdxOk(c, md, x0, y0, width, height, edge_type, filter_outer_edge) ==
    \A m \in MarkedCells(md, x0, y0, width, height, edge_type, filter_outer_edge) :
        idx(c.stride, m[1], m[2]) \in DOMAIN EdgeFlags(c, edge_type)

\* the P-side position of the edge cell at (abs_x, abs_y)
PSide(abs_x, abs_y, edge_type) ==
    IF edge_type = Vertical THEN <<SatSub(abs_x, 1), abs_y>> ELSE <<abs_x, SatSub(abs_y, 1)>>

\* the derivation looking at the Q side only
DerivedBs_qOnly(md, abs_x, abs_y, edge_type) ==
    IF get_pred_mode(md, abs_x, abs_y) = 1
    THEN 2
    ELSE IF get_nonzero_coeff(md, abs_x, abs_y) THEN 1 ELSE 0

\* the bS the derivation assigns to the marked cell at (abs_x, abs_y)
DerivedBs(md, abs_x, abs_y, edge_type) ==
    LET p == PSide(abs_x, abs_y, edge_type)
    IN  IF get_pred_mode(md, p[1], p[2]) = 1 \/ get_pred_mode(md, abs_x, abs_y) = 1
        THEN 2
        ELSE IF get_nonzero_coeff(md, p[1], p[2]) \/ get_nonzero_coeff(md, abs_x, abs_y)
             THEN 1
             ELSE 0

\* the cells the derivation and the luma loop visit
Cells4(x0, y0, width, height) ==
    {<<x0 + c[1], y0 + c[2]>> : c \in StepBy(width, 4) \X StepBy(height, 4)}

derive_boundary_strength_ctb(c, md, x0, y0, width, height, edge_type) ==
    LET flags == EdgeFlags(c, edge_type)
        hit(i) == {m \in Cells4(x0, y0, width, height) : idx(c.stride, m[1], m[2]) = i}
        new(old) ==
            [i \in DOMAIN old |->
                IF hit(i) # {} /\ flags[i] # 0
                THEN LET cell == CHOOSE m \in hit(i) : TRUE
                     IN  DerivedBs(md, cell[1], cell[2], edge_type)
                ELSE old[i]]
    IN  IF edge_type = Vertical
        THEN [c EXCEPT !.ver_bs = new(@)]
        ELSE [c EXCEPT !.hor_bs = new(@)]

\* every table read and write of the derivation loop indexes inside its table
DeriveIdxOk(c, md, x0, y0, width, height, edge_type) ==
    \A m \in Cells4(x0, y0, width, height) :
        LET i == idx(c.stride, m[1], m[2])
            p == PSide(m[1], m[2], edge_type)
        IN  /\ i \in DOMAIN EdgeFlags(c, edge_type)
            /\ EdgeFlags(c, edge_type)[i] # 0 =>
                 /\ idx(md.stride, p[1], p[2]) \in DOMAIN md.pred_mode
                 /\ idx(md.stride, m[1], m[2]) \in DOMAIN md.pred_mode
                 /\ idx(md.stride, p[1], p[2]) \in DOMAIN md.nonzero_coeff
                 /\ idx(md.stride, m[1], m[2]) \in DOMAIN md.nonzero_coeff
                 /\ i \in DOMAIN Bs(c, edge_type)

----------------------------------------------------------------------------
(* The sample filters. *)

\* `as u16` of an i32
AsU16(v) == v % 65536

\* the strong luma filter with a halving that rounds toward minus infinity
StrongPair_floor(p0, q0, tc) ==
    LET delta == Clamp(q0 - p0, -tc, tc)
    IN  <<AsU16(Clamp(p0 + (delta \div 2), 0, 255)), AsU16(Clamp(q0 - (delta \div 2), 0, 255))>>

\* the strong luma filter that moves the samples by delta, not by its half
StrongPair_fullDelta(p0, q0, tc) ==
    LET delta == Clamp(q0 - p0, -tc, tc)
    IN  <<AsU16(Clamp(p0 + delta, 0, 255)), AsU16(Clamp(q0 - delta, 0, 255))>>

\* one pair of the strong luma filter: <<p0', q0'>>
StrongPair(p0, q0, tc) ==
    LET delta == Clamp(q0 - p0, -tc, tc)
    IN  <<AsU16(Clamp(p0 + DivT(delta, 2), 0, 255)), AsU16(Clamp(q0 - DivT(delta, 2), 0, 255))>>

\* the weak luma filter with delta applied to the wrong sides and cast without
\* the clamp to 0..255
WeakPair_slip(p0, q0, tc) ==
    LET delta == Clamp(DivT((q0 - p0) * 9, 16), -tc, tc)
    IN  <<AsU16(p0 - delta), AsU16(q0 + delta)>>

\* the weak luma filter with a division that rounds toward minus infinity
WeakPair_floor(p0, q0, tc) ==
    LET delta == Clamp(((q0 - p0) * 9) \div 16, -tc, tc)
    IN  <<AsU16(Clamp(p0 + delta, 0, 255)), AsU16(Clamp(q0 - delta, 0, 255))>>

\* one pair of the weak luma filter
WeakPair(p0, q0, tc) ==
    LET delta == Clamp(DivT((q0 - p0) * 9, 16), -tc, tc)
    IN  <<AsU16(Clamp(p0 + delta, 0, 255)), AsU16(Clamp(q0 - delta, 0, 255))>>

\* the chroma filter that adds delta on both sides
ChromaPair_sameSign(p0, q0, tc) ==
    LET delta == Clamp(DivT(q0 - p0, 2), -tc, tc)
    IN  <<AsU16(Clamp(p0 + delta, 0, 255)), AsU16(Clamp(q0 + delta, 0, 255))>>

\* one pair of the chroma filter
ChromaPair(p0, q0, tc) ==
    LET delta == Clamp(DivT(q0 - p0, 2), -tc, tc)
    IN  <<AsU16(Clamp(p0 + delta, 0, 255)), AsU16(Clamp(q0 - delta, 0, 255))>>

FilterPair(which, p0, q0, tc) ==
    CASE which = "strong" -> StrongPair(p0, q0, tc)
      [] which = "weak" -> WeakPair(p0, q0, tc)
      [] OTHER -> ChromaPair(p0, q0, tc)

\* the loop `for i in 0..n.min(p_idx.len()).min(q_idx.len())` of the three filters:
\* pair i is read after pairs 0..i-1 were written (the plane after pair i is bound
\* as a value `s` before the loop goes on)
RECURSIVE PairLoop(_, _, _, _, _, _, _)
PairLoop(which, samples, p_idx, q_idx, tc, n, i) ==
    IF i > Min(n, Min(Len(p_idx), Len(q_idx)))
    THEN samples
    ELSE LET r == FilterPair(which, samples[p_idx[i]], samples[q_idx[i]], tc)
         IN  CHOOSE out \in
                 {PairLoop(which, s, p_idx, q_idx, tc, n, i + 1) :
                    s \in {[samples EXCEPT ![p_idx[i]] = r[1], ![q_idx[i]] = r[2]]}} : TRUE

Abs(v) == IF v < 0 THEN -v ELSE v

Max(a, b) == IF a > b THEN a ELSE b

\* history of the loop of PairLoop: the largest amount by which one assignment of
\* the loop moves a sample
RECURSIVE PairLoopDiff(_, _, _, _, _, _, _)
PairLoopDiff(which, samples, p_idx, q_idx, tc, n, i) ==
    IF i > Min(n, Min(Len(p_idx), Len(q_idx)))
    THEN 0
    ELSE LET p0 == samples[p_idx[i]]
             q0 == samples[q_idx[i]]
             r == FilterPair(which, p0, q0, tc)
         IN  CHOOSE out \in
                 {Max(here, rest) :
                    here \in {Max(Abs(r[1] - p0), Abs(r[2] - q0))},
                    rest \in {PairLoopDiff(which, s, p_idx, q_idx, tc, n, i + 1) :
                               s \in {[samples EXCEPT ![p_idx[i]] = r[1], ![q_idx[i]] = r[2]]}}} :
                 TRUE

apply_strong_luma_filter(samples, p_idx, q_idx, beta, tc) ==
    PairLoop("strong", samples, p_idx, q_idx, tc, 4, 1)

apply_weak_luma_filter(samples, p_idx, q_idx, beta, tc) ==
    PairLoop("weak", samples, p_idx, q_idx, tc, 4, 1)

\* p_idx of filter_luma_edge (n = 4) and filter_chroma_edge (n = 2)
PIdx(stride, px, py, edge_type, n) ==
    IF edge_type = Vertical
    THEN [i \in 1..n |-> (py + (i - 1)) * stride + SatSub(px, 1)]
    ELSE [i \in 1..n |-> SatSub(py, 1) * stride + px + (i - 1)]

\* q_idx of filter_luma_edge and filter_chroma_edge
QIdx(stride, px, py, edge_type, n) ==
    IF edge_type = Vertical
    THEN [i \in 1..n |-> (py + (i - 1)) * stride + px]
    ELSE [i \in 1..n |-> py * stride + px + (i - 1)]

\* the check `idx >= samples.len()` passes for every index
AllIdxValid(samples, p_idx, q_idx) ==
    /\ \A i \in DOMAIN p_idx : p_idx[i] \in DOMAIN samples
    /\ \A i \in DOMAIN q_idx : q_idx[i] \in DOMAIN samples

\* (p_idx, q_idx and the thresholds are bound as values, once per call)
filter_luma_edge(samples, stride, px, py, edge_type, bs, beta, tc) ==
    CHOOSE out \in
        {IF ~AllIdxValid(samples, p_idx, q_idx)
         THEN samples
         ELSE IF bs = 2
              THEN apply_strong_luma_filter(samples, p_idx, q_idx, b, t)
              ELSE apply_weak_luma_filter(samples, p_idx, q_idx, b, t) :
            p_idx \in {PIdx(stride, px, py, edge_type, 4)},
            q_idx \in {QIdx(stride, px, py, edge_type, 4)},
            b \in {beta}, t \in {tc}} : TRUE

filter_chroma_edge(samples, stride, px, py, edge_type, tc) ==
    CHOOSE out \in
        {IF ~AllIdxValid(samples, p_idx, q_idx)
         THEN samples
         ELSE PairLoop("chroma", samples, p_idx, q_idx, t, 2, 1) :
            p_idx \in {PIdx(stride, px, py, edge_type, 2)},
            q_idx \in {QIdx(stride, px, py, edge_type, 2)},
            t \in {tc}} : TRUE

\* PairLoopDiff of a call of filter_luma_edge (n = 4) or filter_chroma_edge (n = 2)
CallDiff(which, samples, stride, px, py, edge_type, tc, n) ==
    CHOOSE out \in
        {IF ~AllIdxValid(samples, p_idx, q_idx)
         THEN 0
         ELSE PairLoopDiff(which, samples, p_idx, q_idx, t, n, 1) :
            p_idx \in {PIdx(stride, px, py, edge_type, n)},
            q_idx \in {QIdx(stride, px, py, edge_type, n)},
            t \in {tc}} : TRUE

\* the indices a filter call assigns: all of the window, or none when it is skipped
Written(samples, stride, px, py, edge_type, n) ==
    LET p_idx == PIdx(stride, px, py, edge_type, n)
        q_idx == QIdx(stride, px, py, edge_type, n)
    IN  IF AllIdxValid(samples, p_idx, q_idx)
        THEN {p_idx[i] : i \in 1..n} \cup {q_idx[i] : i \in 1..n}
        ELSE {}

\* the indices at which two planes differ
Changed(old, new) == {i \in DOMAIN old : new[i] # old[i]}

----------------------------------------------------------------------------
(* The parsed container of the decoder facade (src/lib.rs).  The container  *)
(* type and its methods live in the heif module; they are modelled from the  *)
(* data model: an item table with id and type per entry, a primary item id,  *)
(* extents that resolve to data or do not, an optional hvcC per item.        *)

\* Option<T>: None is the empty sequence, Some(v) the sequence of v alone
None == << >>

Some(v) == <<v>>

\* the largest item id of a container, the largest number of entries of its item table
MaxItemId == 2
MaxItems == 3

ItemIds == 1..MaxItemId

\* the four-character item types of the item table: an HEVC image, a grid, another
FourCCs == {"hvc1", "grid", "Exif"}

\* heif::ItemType from the four-character type of an item table entry
ItemType_from(fourcc) ==
    CASE fourcc = "hvc1" -> "Hvc1"
      [] fourcc = "grid" -> "Grid"
      [] OTHER -> "Unknown"

\* the item tables: ids may repeat, as nothing in the facade rules that out
ItemInfos ==
    UNION {[1..n -> [item_id : ItemIds, item_type : FourCCs]] : n \in 0..MaxItems}

\* <<the items whose extents resolve, the items that own an hvcC>>: the extents of
\* the ids up to some k resolve; no item owns an hvcC, or every item with data does
DataAndConfig ==
    {dc \in {1..k : k \in 0..MaxItemId} \X {1..k : k \in 0..MaxItemId} :
        dc[2] = {} \/ dc[2] = dc[1]}

\* primary_item_id 0: the container has no pitm box
Containers ==
    {[item_infos |-> infos, primary_item_id |-> prim, data |-> dc[1], hvcc |-> dc[2]] :
        infos \in ItemInfos, prim \in 0..MaxItemId, dc \in DataAndConfig}

\* Container::get_item: the view of the first entry of the item table with this id
get_item(c, id) ==
    LET hits == {k \in DOMAIN c.item_infos : c.item_infos[k].item_id = id}
    IN  IF hits = {}
        THEN None
        ELSE LET k == CHOOSE k \in hits : \A j \in hits : k <= j
             IN  Some([id |-> id,
                       item_type |-> ItemType_from(c.item_infos[k].item_type),
                       hevc_config |-> id \in c.hvcc])

\* Container::primary_item
primary_item(c) == IF c.primary_item_id = 0 THEN None ELSE get_item(c, c.primary_item_id)

\* Container::get_item_data
get_item_data(c, id) == IF id \in c.data THEN Some(id) ELSE None

\* `item_infos.iter().find(..)` that keeps the last match
find_hvc1_last(c) ==
    LET hits == {k \in DOMAIN c.item_infos : ItemType_from(c.item_infos[k].item_type) = "Hvc1"}
    IN  IF hits = {} THEN None
        ELSE Some(c.item_infos[CHOOSE k \in hits : \A j \in hits : k >= j])

\* `container.item_infos.iter().find(|info| ItemType::from(info.item_type) == Hvc1)`
find_hvc1(c) ==
    LET hits == {k \in DOMAIN c.item_infos : ItemType_from(c.item_infos[k].item_type) = "Hvc1"}
    IN  IF hits = {} THEN None
        ELSE Some(c.item_infos[CHOOSE k \in hits : \A j \in hits : k <= j])

\* the locals and the result of a call that has not started
NoCall == [pc |-> "idle", primary_item |-> None, item_id |-> 0, item |-> None, result |-> "none"]

NoCalls == [decode |-> NoCall, decode_to_frame |-> NoCall]

NoContainer == [item_infos |-> << >>, primary_item_id |-> 0, data |-> {}, hvcc |-> {}]

----------------------------------------------------------------------------
(* The call: apply_deblocking_filter and process_ctb_edges, one action per  *)
(* statement of process_ctb_edges and one per iteration of a filter loop.   *)

ctb_size ==
    2 ^ (sps.log2_min_luma_coding_block_size_minus3 + 3
         + sps.log2_diff_max_min_luma_coding_block_size)

pic_width_in_ctbs == DivCeil(frame.width, ctb_size)

pic_height_in_ctbs == DivCeil(frame.height, ctb_size)

X0 == ctb_x * ctb_size

Y0 == ctb_y * ctb_size

\* ctb_width and ctb_height of process_ctb_edges
ctb_width == Min(ctb_size, frame.width - X0)

ctb_height == Min(ctb_size, frame.height - Y0)

\* apply_deblocking_filter without its early return
SkipDeblocking_never(h) == FALSE

\* the early return of apply_deblocking_filter
SkipDeblocking(h) == h.slice_deblocking_filter_disabled_flag

\* `if bs == 0 { continue; }` of filter_edges_luma
LumaSkip(bs) == bs = 0

\* the chroma loop with the gate of the luma loop
ChromaSkip_zeroOnly(bs) == bs = 0

\* `if bs < 2 { continue; }` of filter_edges_chroma
ChromaSkip(bs) == bs < 2

\* filter_left_edge (vertical) and filter_top_edge (horizontal)
FilterOuterEdge(edge_type, x0, y0, h) ==
    IF edge_type = Vertical
    THEN x0 > 0 /\ ~is_slice_or_tile_boundary(h)
    ELSE y0 > 0 /\ ~is_slice_or_tile_boundary(h)

VerticalSteps == {"mark_v", "bs_v", "luma_v", "chroma_v"}

EdgeOf(step) == IF step \in VerticalSteps THEN Vertical ELSE Horizontal

\* process_ctb_edges with chroma filtered before luma in the vertical pass
StepAfter_chromaFirst(step) ==
    CASE step = "mark_v" -> "bs_v"
      [] step = "bs_v" -> "chroma_v"
      [] step = "chroma_v" -> "luma_v"
      [] step = "luma_v" -> "mark_h"
      [] step = "mark_h" -> "bs_h"
      [] step = "bs_h" -> "luma_h"
      [] step = "luma_h" -> "chroma_h"
      [] OTHER -> "return"

\* the statement of process_ctb_edges that follows `step`
StepAfter(step) ==
    CASE step = "mark_v" -> "bs_v"
      [] step = "bs_v" -> "luma_v"
      [] step = "luma_v" -> "chroma_v"
      [] step = "chroma_v" -> "mark_h"
      [] step = "mark_h" -> "bs_h"
      [] step = "bs_h" -> "luma_h"
      [] step = "luma_h" -> "chroma_h"
      [] OTHER -> "return"

\* the loop head `for y in (0..h).step_by(sy) { for x in (0..w).step_by(sx)`:
\* the iteration after (lx, ly), or "end"
NextCell(lx, ly, w, h, sx, sy) ==
    IF lx + sx < w THEN <<lx + sx, ly>>
    ELSE IF ly + sy < h THEN <<0, ly + sy>>
    ELSE "end"

\* the loop head of apply_deblocking_filter: the CTB after (cx, cy), or "end"
NextCtb(cx, cy) ==
    IF cx + 1 < pic_width_in_ctbs THEN <<cx + 1, cy>>
    ELSE IF cy + 1 < pic_height_in_ctbs THEN <<0, cy + 1>>
    ELSE "end"

NoStep ==
    [op |-> "none", edge_type |-> Vertical, x |-> 0, y |-> 0, lx |-> 0, ly |-> 0, bs |-> 0,
     tc |-> 0, written |-> {}, changed_y |-> {}, changed_cb |-> {}, changed_cr |-> {},
     step_diff |-> 0]

Init ==
    \E in \in Inputs :
        /\ frame = DecodedFrame_new(in.width, in.height, in.seed)
        /\ sps = in.sps
        /\ pps = [pps_beta_offset_div2 |-> in.offsets[1], pps_tc_offset_div2 |-> in.offsets[2]]
        /\ header = [slice_deblocking_filter_disabled_flag |-> in.disabled,
                     slice_loop_filter_across_slices_enabled_flag |-> in.across]
        /\ metadata = DeblockMetadata_new(in.width, in.height, in.kind)
        /\ ctx = DeblockingContext_new(0, 0)
        /\ pc = "start"
        /\ ctb_x = 0
        /\ ctb_y = 0
        /\ x = 0
        /\ y = 0
        /\ input = [seed |-> in.seed, kind |-> in.kind]
        /\ log = << >>
        /\ last = NoStep
        /\ hTouched = {}
        /\ vLate = {}
        /\ container = NoContainer
        /\ calls = NoCalls

\* the planes as they were when the call started
PreFilter == DecodedFrame_new(frame.width, frame.height, input.seed)

\* an index outside its table or plane, or an unsigned subtraction below zero
Panic ==
    /\ pc' = "panic"
    /\ UNCHANGED <<frame, sps, pps, header, metadata, ctx, ctb_x, ctb_y, x, y,
                   input, log, last, hTouched, vLate, container, calls>>

\* apply_deblocking_filter up to the head of its loops
ApplyDeblockingFilter ==
    /\ pc = "start"
    /\ IF SkipDeblocking(header)
       THEN pc' = "done" /\ UNCHANGED ctx
       ELSE /\ ctx' = DeblockingContext_new(frame.width, frame.height)
            /\ pc' = IF pic_height_in_ctbs > 0 /\ pic_width_in_ctbs > 0
                     THEN "process_ctb" ELSE "done"
    /\ UNCHANGED <<frame, sps, pps, header, metadata, ctb_x, ctb_y, x, y,
                   input, log, last, hTouched, vLate, container, calls>>

\* process_ctb_edges up to ctx.clear()
ProcessCtbEdges ==
    /\ pc = "process_ctb"
    /\ IF frame.width < X0 \/ frame.height < Y0
       THEN Panic
       ELSE /\ ctx' = clear(ctx)
            /\ pc' = "mark_v"
            /\ x' = 0
            /\ y' = 0
            /\ UNCHANGED <<frame, sps, pps, header, metadata, ctb_x, ctb_y,
                           input, log, last, hTouched, vLate, container, calls>>

\* mark_edges_for_ctb, vertical or horizontal
MarkEdges ==
    /\ pc \in {"mark_v", "mark_h"}
    /\ LET e == EdgeOf(pc)
           outer == FilterOuterEdge(e, X0, Y0, header)
       IN  IF ~MarkIdxOk(ctx, metadata, X0, Y0, ctb_width, ctb_height, e, outer)
           THEN Panic
           ELSE /\ ctx' = mark_edges_for_ctb(ctx, metadata, X0, Y0, ctb_width, ctb_height, e, outer)
                /\ pc' = StepAfter(pc)
                /\ log' = Append(log, <<ctb_x, ctb_y, pc>>)
                /\ UNCHANGED <<frame, sps, pps, header, metadata, ctb_x, ctb_y, x, y,
                               input, last, hTouched, vLate, container, calls>>

\* derive_boundary_strength_ctb, vertical or horizontal
DeriveBoundaryStrength ==
    /\ pc \in {"bs_v", "bs_h"}
    /\ LET e == EdgeOf(pc)
       IN  IF ~DeriveIdxOk(ctx, metadata, X0, Y0, ctb_width, ctb_height, e)
           THEN Panic
           ELSE /\ ctx' = derive_boundary_strength_ctb(ctx, metadata, X0, Y0,
                                                       ctb_width, ctb_height, e)
                /\ pc' = StepAfter(pc)
                /\ log' = Append(log, <<ctb_x, ctb_y, pc>>)
                /\ UNCHANGED <<frame, sps, pps, header, metadata, ctb_x, ctb_y, x, y,
                               input, last, hTouched, vLate, container, calls>>

\* the end of a filter loop iteration: the next iteration, the next statement of
\* process_ctb_edges, the next CTB, or the end of the call
Advance(sx, sy) ==
    LET n == NextCell(x, y, ctb_width, ctb_height, sx, sy)
        s == StepAfter(pc)
        c == NextCtb(ctb_x, ctb_y)
    IN  IF n # "end"
        THEN x' = n[1] /\ y' = n[2] /\ UNCHANGED <<pc, ctb_x, ctb_y>>
        ELSE /\ x' = 0
             /\ y' = 0
             /\ IF s # "return"
                THEN pc' = s /\ UNCHANGED <<ctb_x, ctb_y>>
                ELSE IF c # "end"
                     THEN pc' = "process_ctb" /\ ctb_x' = c[1] /\ ctb_y' = c[2]
                     ELSE pc' = "done" /\ UNCHANGED <<ctb_x, ctb_y>>

\* one iteration of the loop of filter_edges_luma, vertical or horizontal
FilterEdgesLuma ==
    /\ pc \in {"luma_v", "luma_h"}
    /\ LET e == EdgeOf(pc)
           abs_x == X0 + x
           abs_y == Y0 + y
           stride == frame.width
           i == idx(ctx.stride, abs_x, abs_y)
           bs == Bs(ctx, e)[i]
           new_y == filter_luma_edge(frame.y_plane, stride, abs_x, abs_y, e, bs,
                                     Beta(pps), TcVal(pps))
           w == IF LumaSkip(bs) THEN {}
                ELSE Written(frame.y_plane, stride, abs_x, abs_y, e, 4)
       IN  IF i \notin DOMAIN Bs(ctx, e) \/ (~LumaSkip(bs) /\ ~TableIdxOk(pps))
           THEN Panic
           ELSE /\ frame' = IF LumaSkip(bs) THEN frame ELSE [frame EXCEPT !.y_plane = new_y]
                /\ last' = [op |-> "luma", edge_type |-> e, x |-> abs_x, y |-> abs_y,
                            lx |-> x, ly |-> y, bs |-> bs, tc |-> TcVal(pps),
                            beta |-> Beta(pps), written |-> w,
                            changed_y |-> Changed(frame.y_plane, frame'.y_plane),
                            changed_cb |-> {}, changed_cr |-> {},
                            step_diff |->
                                IF LumaSkip(bs) THEN 0
                                ELSE CallDiff(IF bs = 2 THEN "strong" ELSE "weak",
                                              frame.y_plane, stride, abs_x, abs_y, e,
                                              TcVal(pps), 4)]
                /\ hTouched' = IF e = Horizontal THEN hTouched \cup w ELSE hTouched
                /\ vLate' = IF e = Vertical THEN vLate \cup (w \cap hTouched) ELSE vLate
                /\ log' = IF x = 0 /\ y = 0 THEN Append(log, <<ctb_x, ctb_y, pc>>) ELSE log
                /\ Advance(4, 4)
                /\ UNCHANGED <<sps, pps, header, metadata, ctx, input, container, calls>>

\* one iteration of the loop of filter_edges_chroma, vertical or horizontal
FilterEdgesChroma ==
    /\ pc \in {"chroma_v", "chroma_h"}
    /\ LET e == EdgeOf(pc)
           abs_x == X0 + x
           abs_y == Y0 + y
           chroma_stride == frame.width \div 2
           i == idx(ctx.stride, abs_x, abs_y)
           bs == Bs(ctx, e)[i]
           cx == abs_x \div 2
           cy == abs_y \div 2
           new_cb == filter_chroma_edge(frame.cb_plane, chroma_stride, cx, cy, e, TcVal(pps))
           new_cr == filter_chroma_edge(frame.cr_plane, chroma_stride, cx, cy, e, TcVal(pps))
           w == IF ChromaSkip(bs) THEN {}
                ELSE Written(frame.cb_plane, chroma_stride, cx, cy, e, 2)
       IN  IF i \notin DOMAIN Bs(ctx, e) \/ (~ChromaSkip(bs) /\ ~TableIdxOk(pps))
           THEN Panic
           ELSE /\ frame' = IF ChromaSkip(bs) THEN frame
                            ELSE [frame EXCEPT !.cb_plane = new_cb, !.cr_plane = new_cr]
                /\ last' = [op |-> "chroma", edge_type |-> e, x |-> abs_x, y |-> abs_y,
                            lx |-> x, ly |-> y, bs |-> bs, tc |-> TcVal(pps), written |-> w,
                            changed_y |-> {},
                            changed_cb |-> Changed(frame.cb_plane, frame'.cb_plane),
                            changed_cr |-> Changed(frame.cr_plane, frame'.cr_plane),
                            step_diff |->
                                IF ChromaSkip(bs) THEN 0
                                ELSE Max(CallDiff("chroma", frame.cb_plane, chroma_stride,
                                                  cx, cy, e, TcVal(pps), 2),
                                         CallDiff("chroma", frame.cr_plane, chroma_stride,
                                                  cx, cy, e, TcVal(pps), 2))]
                /\ log' = IF x = 0 /\ y = 0 THEN Append(log, <<ctb_x, ctb_y, pc>>) ELSE log
                /\ Advance(8, 8)
                /\ UNCHANGED <<sps, pps, header, metadata, ctx, input, hTouched, vLate,
                               container, calls>>

Next ==
    \/ ApplyDeblockingFilter
    \/ ProcessCtbEdges
    \/ MarkEdges
    \/ DeriveBoundaryStrength
    \/ FilterEdgesLuma
    \/ FilterEdgesChroma

Spec == Init /\ [][Next]_vars

----------------------------------------------------------------------------
(* The sample filters on their own: one call of filter_luma_edge or of       *)
(* filter_chroma_edge on the edge cell in the middle of a 4x4 picture whose  *)
(* P side holds the sample p0 and whose Q side holds the sample q0.          *)

\* the largest sample of an 8-bit plane
MaxSample == 255

\* <<pps_beta_offset_div2, pps_tc_offset_div2>>: tc = 0, 1, 2, 3, 10 and 24
PairOffsets == {<<0, 0>>, <<6, 6>>, <<13, 0>>, <<15, 0>>, <<26, -4>>, <<30, 30>>}

\* a w x w plane with p0 on the P side of the edge in its middle and q0 on the Q side
PairPlane(w, p0, q0, edge_type) ==
    [i \in 0..(w * w - 1) |->
        IF edge_type = Vertical
        THEN IF i % w < w \div 2 THEN p0 ELSE q0
        ELSE IF i \div w < w \div 2 THEN p0 ELSE q0]

\* the largest difference of p0 and q0, but for the pairs that hold a 0 or a 255:
\* from a difference of 48 on, every filter's delta is clamped to tc <= 24
MaxGap == 64

\* the pairs <<p0, q0>> a filter is called on
PairSamples ==
    {s \in (0..MaxSample) \X (0..MaxSample) :
        \/ (s[2] - s[1] <= MaxGap /\ s[1] - s[2] <= MaxGap)
        \/ s[1] \in {0, MaxSample}
        \/ s[2] \in {0, MaxSample}}

PairInit ==
    \E s \in PairSamples, o \in PairOffsets, e \in {Vertical, Horizontal} :
      LET p0 == s[1]
          q0 == s[2]
      IN
        /\ frame = [width |-> 4, height |-> 4,
                    y_plane |-> PairPlane(4, p0, q0, e),
                    cb_plane |-> PairPlane(2, p0, q0, e),
                    cr_plane |-> PairPlane(2, q0, p0, e)]
        /\ sps = [log2_min_luma_coding_block_size_minus3 |-> 1,
                  log2_diff_max_min_luma_coding_block_size |-> 0]
        /\ pps = [pps_beta_offset_div2 |-> o[1], pps_tc_offset_div2 |-> o[2]]
        /\ header = [slice_deblocking_filter_disabled_flag |-> FALSE,
                     slice_loop_filter_across_slices_enabled_flag |-> TRUE]
        /\ metadata = DeblockMetadata_new(4, 4, "skip")
        /\ ctx = DeblockingContext_new(4, 4)
        /\ pc = "pair"
        /\ ctb_x = 0
        /\ ctb_y = 0
        /\ x = IF e = Vertical THEN 2 ELSE 0
        /\ y = IF e = Vertical THEN 0 ELSE 2
        /\ input = [seed |-> 0, kind |-> "pair", p0 |-> p0, q0 |-> q0, edge_type |-> e]
        /\ log = << >>
        /\ last = NoStep
        /\ hTouched = {}
        /\ vLate = {}
        /\ container = NoContainer
        /\ calls = NoCalls

\* filter_luma_edge on the edge cell (x, y), called as filter_edges_luma calls it
\* for a cell of boundary strength bs
CallFilterLumaEdge(bs, to) ==
    /\ pc = "pair"
    /\ frame' = [frame EXCEPT !.y_plane =
                    filter_luma_edge(@, frame.width, x, y, input.edge_type, bs,
                                     Beta(pps), TcVal(pps))]
    /\ pc' = to
    /\ UNCHANGED <<sps, pps, header, metadata, ctx, ctb_x, ctb_y, x, y,
                   input, log, last, hTouched, vLate, container, calls>>

ApplyStrongLumaFilter == CallFilterLumaEdge(2, "strong")

ApplyWeakLumaFilter == CallFilterLumaEdge(1, "weak")

\* filter_chroma_edge on Cb and on Cr, called as filter_edges_chroma calls it
FilterChromaEdge ==
    /\ pc = "pair"
    /\ LET chroma_stride == frame.width \div 2
           cx == x \div 2
           cy == y \div 2
       IN  frame' = [frame EXCEPT
                        !.cb_plane = filter_chroma_edge(@, chroma_stride, cx, cy,
                                                        input.edge_type, TcVal(pps)),
                        !.cr_plane = filter_chroma_edge(@, chroma_stride, cx, cy,
                                                        input.edge_type, TcVal(pps))]
    /\ pc' = "chroma"
    /\ UNCHANGED <<sps, pps, header, metadata, ctx, ctb_x, ctb_y, x, y,
                   input, log, last, hTouched, vLate, container, calls>>

PairNext ==
    \/ ApplyStrongLumaFilter
    \/ ApplyWeakLumaFilter
    \/ FilterChromaEdge

PairSpec == PairInit /\ [][PairNext]_vars

----------------------------------------------------------------------------
(* The decoder facade: HeicDecoder::decode and HeicDecoder::decode_to_frame  *)
(* called one after the other on the same parsed container, one action per   *)
(* statement.  A call ends with an error, or hands the data of the item it    *)
(* selected to the HEVC decoder (hevc::decode_with_config or hevc::decode).   *)

FacadeInit ==
    /\ container \in Containers
    /\ calls = [NoCalls EXCEPT !.decode.pc = "primary"]
    /\ frame = DecodedFrame_new(1, 1, 0)
    /\ sps = [log2_min_luma_coding_block_size_minus3 |-> 1,
              log2_diff_max_min_luma_coding_block_size |-> 0]
    /\ pps = [pps_beta_offset_div2 |-> 0, pps_tc_offset_div2 |-> 0]
    /\ header = [slice_deblocking_filter_disabled_flag |-> FALSE,
                 slice_loop_filter_across_slices_enabled_flag |-> TRUE]
    /\ metadata = DeblockMetadata_new(1, 1, "skip")
    /\ ctx = DeblockingContext_new(0, 0)
    /\ pc = "facade"
    /\ ctb_x = 0
    /\ ctb_y = 0
    /\ x = 0
    /\ y = 0
    /\ input = [seed |-> 0, kind |-> "skip"]
    /\ log = << >>
    /\ last = NoStep
    /\ hTouched = {}
    /\ vLate = {}

FacadeUnchanged ==
    UNCHANGED <<frame, sps, pps, header, metadata, ctx, pc, ctb_x, ctb_y, x, y,
                input, log, last, hTouched, vLate, container>>

\* a call returns: decode_to_frame is called when decode has returned
Return(f, result) ==
    calls' = IF f = "decode"
             THEN [calls EXCEPT !.decode.pc = "returned", !.decode.result = result,
                                !.decode_to_frame.pc = "primary"]
             ELSE [calls EXCEPT ![f].pc = "returned", ![f].result = result]

\* `let primary_item = container.primary_item().ok_or(HeicError::NoPrimaryImage)?;`
\* of decode and of decode_to_frame
PrimaryItem(f) ==
    /\ calls[f].pc = "primary"
    /\ IF primary_item(container) = None
       THEN Return(f, "NoPrimaryImage")
       ELSE calls' = [calls EXCEPT ![f].pc = "select",
                                   ![f].primary_item = primary_item(container)]
    /\ FacadeUnchanged

\* decode: `let item = if primary_item.item_type == Grid { .. } else { primary_item };`
DecodeSelectItem ==
    /\ calls.decode.pc = "select"
    /\ LET primary == calls.decode.primary_item[1]
           tile_info == find_hvc1(container)
       IN  IF primary.item_type = "Grid"
           THEN IF tile_info = None
                THEN Return("decode", "InvalidData: Grid has no tile items")
                ELSE IF get_item(container, tile_info[1].item_id) = None
                     THEN Return("decode", "InvalidData: Tile item not found")
                     ELSE calls' = [calls EXCEPT
                                      !.decode.pc = "data",
                                      !.decode.item_id = tile_info[1].item_id,
                                      !.decode.item = get_item(container, tile_info[1].item_id)]
           ELSE calls' = [calls EXCEPT !.decode.pc = "data",
                                       !.decode.item_id = primary.id,
                                       !.decode.item = Some(primary)]
    /\ FacadeUnchanged

\* decode_to_frame: `let (item_id, item_type) = if primary_item.item_type == Grid ..`
FrameSelectItemId ==
    /\ calls.decode_to_frame.pc = "select"
    /\ LET primary == calls.decode_to_frame.primary_item[1]
           tile_item == find_hvc1(container)
       IN  IF primary.item_type = "Grid"
           THEN IF tile_item = None
                THEN Return("decode_to_frame", "InvalidData: Grid has no tile items")
                ELSE calls' = [calls EXCEPT !.decode_to_frame.pc = "get_item",
                                            !.decode_to_frame.item_id = tile_item[1].item_id]
           ELSE calls' = [calls EXCEPT !.decode_to_frame.pc = "get_item",
                                       !.decode_to_frame.item_id = primary.id]
    /\ FacadeUnchanged

\* decode_to_frame: `let item = container.get_item(item_id).ok_or(..)?;`
FrameGetItem ==
    /\ calls.decode_to_frame.pc = "get_item"
    /\ LET item == get_item(container, calls.decode_to_frame.item_id)
       IN  IF item = None
           THEN Return("decode_to_frame", "InvalidData: Item not found")
           ELSE calls' = [calls EXCEPT !.decode_to_frame.pc = "data",
                                       !.decode_to_frame.item = item]
    /\ FacadeUnchanged

\* `let image_data = container.get_item_data(item.id).ok_or(..)?;` and the call of
\* the HEVC decoder, of decode and of decode_to_frame
GetItemData(f) ==
    /\ calls[f].pc = "data"
    /\ LET item == calls[f].item[1]
       IN  IF get_item_data(container, item.id) = None
           THEN Return(f, "InvalidData: Missing image data")
           ELSE IF item.hevc_config
                THEN Return(f, "hevc::decode_with_config")
                ELSE Return(f, "hevc::decode")
    /\ FacadeUnchanged

FacadeNext ==
    \/ PrimaryItem("decode")
    \/ DecodeSelectItem
    \/ GetItemData("decode")
    \/ PrimaryItem("decode_to_frame")
    \/ FrameSelectItemId
    \/ FrameGetItem
    \/ GetItemData("decode_to_frame")

FacadeSpec == FacadeInit /\ [][FacadeNext]_vars

----------------------------------------------------------------------------
(* Properties of the call. *)

FilterSteps == {"luma_v", "chroma_v", "luma_h", "chroma_h"}

CtbSteps == {"mark_v", "bs_v", "luma_v", "chroma_v", "mark_h", "bs_h", "luma_h", "chroma_h"}

Disabled == header.slice_deblocking_filter_disabled_flag

Across == header.slice_loop_filter_across_slices_enabled_flag

InRange(plane) == \A i \in DOMAIN plane : plane[i] >= 0 /\ plane[i] <= 255

\* C1: with slice_deblocking_filter_disabled_flag set the call is a no-op: in every
\* state of the call, its last included, every sample of Y, Cb and Cr equals the
\* pre-filter sample, and the call goes from its entry straight to its end.
C1_DisabledIsNoOp ==
    Disabled =>
        /\ frame = PreFilter
        /\ pc \in {"start", "done"}

\* a disabled call has ended on a picture that an enabled call does change
C1_Witness ==
    /\ Disabled
    /\ pc = "done"
    /\ input.kind = "mixed"
    /\ TcVal(pps) = 10
    /\ frame.width > 16
    /\ frame.height > 16

\* C2: the samples of the three planes, in 0..255 before the call, are in 0..255 in
\* every state of the call: after each iteration of a filter loop and at the end.
C2_SamplesInRange ==
    /\ InRange(frame.y_plane)
    /\ InRange(frame.cb_plane)
    /\ InRange(frame.cr_plane)

\* a filter step has changed a sample of a plane that holds the extremes 0 and 255
C2_Witness ==
    /\ input.seed = 1
    /\ last.op = "luma"
    /\ last.changed_y # {}
    /\ \E i \in last.changed_y : PreFilter.y_plane[i] \in {0, 255}
    /\ TcVal(pps) = 24

\* how far the call has got: the CTB, the statement of process_ctb_edges and the
\* loop iteration, in lexicographic order; the end of the call is above them all
StepNo(step) ==
    CASE step = "process_ctb" -> 0
      [] step = "mark_v" -> 1
      [] step = "bs_v" -> 2
      [] step = "luma_v" -> 3
      [] step = "chroma_v" -> 4
      [] step = "mark_h" -> 5
      [] step = "bs_h" -> 6
      [] step = "luma_h" -> 7
      [] OTHER -> 8

Progress ==
    CASE pc = "start" -> -1
      [] pc \in {"done", "panic"} ->
            pic_width_in_ctbs * pic_height_in_ctbs * 9 * 65536
      [] OTHER ->
            ((ctb_y * pic_width_in_ctbs + ctb_x) * 9 + StepNo(pc)) * 65536 + y * 256 + x

\* C3: the call never fails and runs to completion: no table or plane index is out
\* of bounds and no unsigned subtraction underflows (the call never reaches
\* "panic"); until its end the call always has a next step, and every step takes it
\* strictly further through its finitely many CTBs, statements and loop iterations.
\* This holds for every width and height from 1 to the bounds, every CTB size, and
\* every flag and offset pair of the inputs.
C3_NeverFails ==
    /\ [](pc # "panic" /\ (pc # "done" => ENABLED Next))
    /\ [][Progress' > Progress]_vars

\* the call has ended after filtering a picture of several CTBs whose width and
\* height are odd, and has changed samples
C3_Witness ==
    /\ pc = "done"
    /\ ~Disabled
    /\ frame.width % 2 = 1
    /\ frame.height % 2 = 1
    /\ pic_width_in_ctbs > 1
    /\ pic_height_in_ctbs > 1
    /\ frame # PreFilter

\* the steps of process_ctb_edges, in the order of the source text
StepNames == <<"mark_v", "bs_v", "luma_v", "chroma_v", "mark_h", "bs_h", "luma_h", "chroma_h">>

\* the k-th step of a call that visits the CTBs in raster order and runs the eight
\* steps of each in the order of StepNames
ExpectedLogEntry(k) ==
    LET c == (k - 1) \div 8
    IN  <<c % pic_width_in_ctbs, c \div pic_width_in_ctbs, StepNames[((k - 1) % 8) + 1]>>

\* C4: the CTBs are processed in raster order, each exactly once, and each CTB's
\* steps run in the order mark vertical, bS vertical, luma vertical, chroma vertical,
\* mark horizontal, bS horizontal, luma horizontal, chroma horizontal: the steps
\* started so far are a prefix of that sequence, the step that runs is the last one
\* started, a step starts only when every earlier step has ended, and at the end of
\* the call every step of every CTB has run.
C4_StepOrder ==
    /\ \A k \in 1..Len(log) : log[k] = ExpectedLogEntry(k)
    /\ Len(log) <= 8 * pic_width_in_ctbs * pic_height_in_ctbs
    /\ (pc \in CtbSteps /\ <<x, y>> # <<0, 0>>) => log[Len(log)] = <<ctb_x, ctb_y, pc>>
    /\ (pc \in CtbSteps /\ <<x, y>> = <<0, 0>>) =>
            \/ Len(log) = (ctb_y * pic_width_in_ctbs + ctb_x) * 8 + StepNo(pc) - 1
            \/ /\ Len(log) = (ctb_y * pic_width_in_ctbs + ctb_x) * 8 + StepNo(pc)
               /\ pc \in FilterSteps
    /\ (pc = "done" /\ ~Disabled) => Len(log) = 8 * pic_width_in_ctbs * pic_height_in_ctbs

\* a call over two rows of two CTBs has ended
C4_Witness ==
    /\ pc = "done"
    /\ pic_width_in_ctbs = 2
    /\ pic_height_in_ctbs = 2
    /\ Len(log) = 32
    /\ log[9] = <<1, 0, "mark_v">>
    /\ log[17] = <<0, 1, "mark_v">>

\* the last loop iteration called a sample filter on its edge cell
Filtered == (last.op = "luma" /\ last.bs > 0) \/ (last.op = "chroma" /\ last.bs = 2)

\* the indices of the samples of row 0 and of column 0 of a plane of width w
Border(plane, w) == {i \in DOMAIN plane : i \div w = 0 \/ i % w = 0}

BorderUnchanged(plane, pre, w) == \A i \in Border(plane, w) : plane[i] = pre[i]

\* no edge cell at a CTB origin is filtered: not a vertical edge at local x = 0, not
\* a horizontal edge at local y = 0
NoOriginEdgeFiltered ==
    Filtered => IF last.edge_type = Vertical THEN last.lx # 0 ELSE last.ly # 0

\* C5 as stated: with slice_loop_filter_across_slices_enabled_flag false no edge at a
\* CTB origin is filtered, and after the call every sample of row 0 and of column 0
\* of the planes has its pre-filter value.
C5_BorderUnchanged ==
    ~Across =>
        /\ NoOriginEdgeFiltered
        /\ pc = "done" =>
              /\ BorderUnchanged(frame.y_plane, PreFilter.y_plane, frame.width)
              /\ BorderUnchanged(frame.cb_plane, PreFilter.cb_plane, ChromaWidth(frame.width))
              /\ BorderUnchanged(frame.cr_plane, PreFilter.cr_plane, ChromaWidth(frame.width))

\* C5, amended: with slice_loop_filter_across_slices_enabled_flag false no edge cell
\* at a CTB origin (a vertical edge at local x = 0, a horizontal edge at local y = 0)
\* is filtered; the samples of row 0 and column 0 may still change, through interior
\* edges: a Y sample of row 0 is written by vertical-edge steps only, a Y sample of
\* column 0 by horizontal-edge steps only.
C5_NoOriginEdge ==
    ~Across =>
        /\ NoOriginEdgeFiltered
        /\ (last.op = "luma" /\ last.edge_type = Horizontal) =>
              \A i \in last.written : i \div frame.width # 0
        /\ (last.op = "luma" /\ last.edge_type = Vertical) =>
              \A i \in last.written : i % frame.width # 0

\* with the flag false, a call over several CTBs has ended and has changed a Y
\* sample of row 0
C5_Witness ==
    /\ ~Across
    /\ ~Disabled
    /\ pc = "done"
    /\ pic_width_in_ctbs > 1
    /\ \E i \in 0..(frame.width - 1) : frame.y_plane[i] # PreFilter.y_plane[i]

AllInterNoCoeff ==
    \A i \in DOMAIN metadata.pred_mode :
        metadata.pred_mode[i] = 0 /\ ~metadata.nonzero_coeff[i]

NoIntra == \A i \in DOMAIN metadata.pred_mode : metadata.pred_mode[i] = 0

\* C6: a loop iteration writes luma samples only if its cell's bS is > 0 and chroma
\* samples only if its bS is 2; a picture whose cells are all inter without
\* coefficients is never changed, and a picture without intra cells keeps its Cb and
\* Cr planes.
C6_BsGates ==
    /\ (last.op = "luma" /\ (last.written # {} \/ last.changed_y # {})) => last.bs > 0
    /\ (last.op = "chroma" /\ (last.written # {} \/ last.changed_cb # {} \/ last.changed_cr # {}))
            => last.bs = 2
    /\ last.op = "luma" => (last.changed_cb = {} /\ last.changed_cr = {})
    /\ last.op = "chroma" => last.changed_y = {}
    /\ AllInterNoCoeff => frame = PreFilter
    /\ NoIntra => (frame.cb_plane = PreFilter.cb_plane /\ frame.cr_plane = PreFilter.cr_plane)

\* a call on a picture without intra cells has ended: it has changed Y samples, and
\* its Cb plane has a pair across a chroma edge that tc > 0 would have changed
C6_Witness ==
    /\ pc = "done"
    /\ NoIntra
    /\ ~AllInterNoCoeff
    /\ frame.y_plane # PreFilter.y_plane
    /\ TcVal(pps) > 0
    /\ frame.width >= 10
    /\ frame.cb_plane[3] # frame.cb_plane[4]

\* C8 as stated: a luma sample that a horizontal-edge luma step has read or written
\* is never written by a vertical-edge luma step afterwards.
C8_VerticalBeforeHorizontal == vLate = {}

\* the positions <<row, column>> of the 4+4 window of the luma edge cell (px, py)
LumaWindow(px, py, edge_type) ==
    IF edge_type = Vertical
    THEN {<<r, c>> : r \in py..(py + 3), c \in {px - 1, px}}
    ELSE {<<r, c>> : r \in {py - 1, py}, c \in px..(px + 3)}

\* C9 as stated: a luma step writes only samples of its window (rows y-1 and y,
\* columns x..x+3 for a horizontal edge; rows y..y+3, columns x-1 and x for a
\* vertical edge), and writes nothing when one of these positions has a column
\* outside 0..width-1 or a row outside 0..height-1.
C9_LumaWindowInsidePlane ==
    last.op = "luma" =>
        LET win == LumaWindow(last.x, last.y, last.edge_type)
            inside == \A p \in win : /\ p[1] >= 0 /\ p[1] < frame.height
                                    /\ p[2] >= 0 /\ p[2] < frame.width
            allowed == IF inside THEN {p[1] * frame.width + p[2] : p \in win} ELSE {}
        IN  last.written \subseteq allowed /\ last.changed_y \subseteq allowed

\* the 4x4 cells, by the position of their top-left sample, whose flag is set
FlaggedCells(flags) ==
    {<<4 * (i % ctx.stride), 4 * (i \div ctx.stride)>> : i \in {j \in DOMAIN flags : flags[j] # 0}}

\* the cells C10 names for the CTB that is being processed
ExpectedMarks(edge_type) ==
    IF edge_type = Vertical
    THEN {<<X0 + c[1], Y0 + c[2]>> :
            c \in {d \in StepBy(ctb_width, 8) \X StepBy(ctb_height, 4) :
                     d[1] > 0 \/ (X0 > 0 /\ Across)}}
    ELSE {<<X0 + c[1], Y0 + c[2]>> :
            c \in {d \in StepBy(ctb_width, 4) \X StepBy(ctb_height, 8) :
                     d[2] > 0 \/ (Y0 > 0 /\ Across)}}

\* C10: from the end of the vertical marking step of a CTB on, the cells with the
\* vertical flag set are exactly the cells (x0+x, y0+y) with y in {0,4,..} below the
\* clipped height, x in {0,8,..} below the clipped width, and x > 0 or (x0 > 0 and
\* slice_loop_filter_across_slices_enabled_flag); symmetrically for the horizontal
\* flags; whatever the transform-split flags are, no marked cell is off the 8-sample
\* grid, and no vertical edge at picture x = 0 or horizontal edge at picture y = 0
\* is marked.
C10_EdgeMarking ==
    /\ pc \in (CtbSteps \ {"mark_v"}) =>
            FlaggedCells(ctx.ver_edge_flags) = ExpectedMarks(Vertical)
    /\ pc \in {"bs_h", "luma_h", "chroma_h"} =>
            FlaggedCells(ctx.hor_edge_flags) = ExpectedMarks(Horizontal)
    /\ \A c \in FlaggedCells(ctx.ver_edge_flags) : c[1] % 8 = 0 /\ c[1] # 0
    /\ \A c \in FlaggedCells(ctx.hor_edge_flags) : c[2] % 8 = 0 /\ c[2] # 0

\* the vertical marking of a CTB right of another has ended; the outer left edge and
\* an interior edge are marked, and the metadata holds set transform-split flags
C10_Witness ==
    /\ pc = "bs_v"
    /\ X0 > 0
    /\ Across
    /\ <<X0, Y0>> \in FlaggedCells(ctx.ver_edge_flags)
    /\ \E i \in DOMAIN metadata.split_transform : metadata.split_transform[i]
    /\ \E i \in DOMAIN metadata.split_transform : ~metadata.split_transform[i]

\* the table index of the cell on the P side of the cell with index i: the cell to
\* the left (vertical edge) or above (horizontal edge), the cell itself in column 0
\* or row 0
PCellIdx(i, edge_type) ==
    IF edge_type = Vertical
    THEN IF i % ctx.stride > 0 THEN i - 1 ELSE i
    ELSE IF i \div ctx.stride > 0 THEN i - ctx.stride ELSE i

\* the bS C11 names for the cell with table index i
ExpectedBs(i, edge_type) ==
    LET q == i
        p == PCellIdx(i, edge_type)
    IN  IF metadata.pred_mode[p] = 1 \/ metadata.pred_mode[q] = 1 THEN 2
        ELSE IF metadata.nonzero_coeff[p] \/ metadata.nonzero_coeff[q] THEN 1
        ELSE 0

\* the bS table holds the bS of C11 at every flagged cell and 0 at every other cell
BsAsDerived(edge_type) ==
    \A i \in DOMAIN Bs(ctx, edge_type) :
        Bs(ctx, edge_type)[i] =
            IF EdgeFlags(ctx, edge_type)[i] # 0 THEN ExpectedBs(i, edge_type) ELSE 0

\* C11: from the end of the vertical bS step of a CTB on, every cell with the vertical
\* edge flag set has bS 2 if the cell or its P-side neighbour (left, saturating at
\* column 0) is intra, otherwise 1 if either has the non-zero-coefficient flag,
\* otherwise 0, and every cell without the flag has bS 0; the same for the horizontal
\* table (P above) from the end of the horizontal bS step on; before its bS step a
\* table is all zero; every bS is 0, 1 or 2.
C11_BoundaryStrength ==
    /\ pc \in (CtbSteps \ {"mark_v", "bs_v"}) => BsAsDerived(Vertical)
    /\ pc \in {"luma_h", "chroma_h"} => BsAsDerived(Horizontal)
    /\ pc \in {"mark_v", "bs_v"} => \A i \in DOMAIN ctx.ver_bs : ctx.ver_bs[i] = 0
    /\ pc \in (CtbSteps \ {"luma_h", "chroma_h"}) => \A i \in DOMAIN ctx.hor_bs : ctx.hor_bs[i] = 0
    /\ \A i \in DOMAIN ctx.ver_bs : ctx.ver_bs[i] \in {0, 1, 2}
    /\ \A i \in DOMAIN ctx.hor_bs : ctx.hor_bs[i] \in {0, 1, 2}

\* the horizontal bS step of a CTB has ended: flagged cells got bS 1 and bS 2, one of
\* them bS 2 through its P side alone, and unflagged cells with coefficients stay 0
C11_Witness ==
    /\ pc = "luma_h"
    /\ \E i \in DOMAIN ctx.hor_bs : ctx.hor_bs[i] = 1
    /\ \E i \in DOMAIN ctx.hor_bs :
          /\ ctx.hor_bs[i] = 2
          /\ metadata.pred_mode[i] = 0
          /\ metadata.pred_mode[PCellIdx(i, Horizontal)] = 1
    /\ \E i \in DOMAIN ctx.hor_bs :
          ctx.hor_edge_flags[i] = 0 /\ metadata.nonzero_coeff[i] /\ ctx.hor_bs[i] = 0

\* the Y indices of the P samples and of the Q samples of the edge in the middle of
\* the 4x4 picture of PairSpec, and the Q index of the pair of a P index
PairPSide == IF input.edge_type = Vertical THEN {1, 5, 9, 13} ELSE {4, 5, 6, 7}

PairQOf(i) == IF input.edge_type = Vertical THEN i + 1 ELSE i + 4

PairQSide == {PairQOf(i) : i \in PairPSide}

\* the quotient a / b rounded toward zero
TruncDiv(a, b) == IF a >= 0 THEN a \div b ELSE -((-a) \div b)

\* the Y samples outside the two lines along the edge, and Cb and Cr, are as before
OnlyLumaPairsWritten ==
    /\ \A i \in DOMAIN frame.y_plane \ (PairPSide \cup PairQSide) :
          frame.y_plane[i] = PairPlane(4, input.p0, input.q0, input.edge_type)[i]
    /\ frame.cb_plane = PairPlane(2, input.p0, input.q0, input.edge_type)
    /\ frame.cr_plane = PairPlane(2, input.q0, input.p0, input.edge_type)

\* C12: after the strong filter (bS == 2) each of the four pairs (p0, q0) across the
\* edge holds p0' = clamp(p0 + delta/2, 0, 255) and q0' = clamp(q0 - delta/2, 0, 255)
\* with delta = clamp(q0 - p0, -tc, +tc) and delta/2 rounded toward zero: delta = -3
\* moves the samples by 1, delta = -1 by 0; P = 100, Q = 120, tc = 10 gives 105 and
\* 115; no other sample is written.
C12_StrongFilter ==
    pc = "strong" =>
        LET p0 == input.p0
            q0 == input.q0
            tc == TcVal(pps)
            delta == Clamp(q0 - p0, -tc, tc)
        IN  /\ \A i \in PairPSide :
                  /\ frame.y_plane[i] = Clamp(p0 + TruncDiv(delta, 2), 0, 255)
                  /\ frame.y_plane[PairQOf(i)] = Clamp(q0 - TruncDiv(delta, 2), 0, 255)
                  /\ delta = -3 => (frame.y_plane[i] = p0 - 1 /\ frame.y_plane[PairQOf(i)] = q0 + 1)
                  /\ delta = -1 => (frame.y_plane[i] = p0 /\ frame.y_plane[PairQOf(i)] = q0)
                  /\ (p0 = 100 /\ q0 = 120 /\ tc = 10) =>
                        (frame.y_plane[i] = 105 /\ frame.y_plane[PairQOf(i)] = 115)
            /\ OnlyLumaPairsWritten

\* the strong filter has run on P = 120, Q = 117 with tc = 10: delta is -3
C12_Witness ==
    /\ pc = "strong"
    /\ input.p0 = 120
    /\ input.q0 = 117
    /\ TcVal(pps) = 10
    /\ \A i \in PairPSide : frame.y_plane[i] = 119 /\ frame.y_plane[PairQOf(i)] = 118

\* C13: after the weak filter (bS == 1) each of the four pairs (p0, q0) across the
\* edge holds p0' = clamp(p0 + delta, 0, 255) and q0' = clamp(q0 - delta, 0, 255) with
\* delta = clamp((9 * (q0 - p0)) / 16, -tc, +tc), the division rounded toward zero;
\* P = 100, Q = 120, tc = 10 gives 110 and 110; no other sample is written.
C13_WeakFilter ==
    pc = "weak" =>
        LET p0 == input.p0
            q0 == input.q0
            tc == TcVal(pps)
            delta == Clamp(TruncDiv(9 * (q0 - p0), 16), -tc, tc)
        IN  /\ \A i \in PairPSide :
                  /\ frame.y_plane[i] = Clamp(p0 + delta, 0, 255)
                  /\ frame.y_plane[PairQOf(i)] = Clamp(q0 - delta, 0, 255)
                  /\ (p0 = 100 /\ q0 = 120 /\ tc = 10) =>
                        (frame.y_plane[i] = 110 /\ frame.y_plane[PairQOf(i)] = 110)
            /\ OnlyLumaPairsWritten

\* the weak filter has run on P = 100, Q = 120 with tc = 10
C13_Witness ==
    /\ pc = "weak"
    /\ input.p0 = 100
    /\ input.q0 = 120
    /\ TcVal(pps) = 10
    /\ \A i \in PairPSide : frame.y_plane[i] = 110 /\ frame.y_plane[PairQOf(i)] = 110

\* the two pairs <<P position, Q position>>, positions as <<row, column>>, next to the
\* chroma edge at (cx, cy)
ChromaPairsAt(cx, cy, edge_type) ==
    IF edge_type = Vertical
    THEN {<<(<<r, cx - 1>>), (<<r, cx>>)>> : r \in {cy, cy + 1}}
    ELSE {<<(<<cy - 1, c>>), (<<cy, c>>)>> : c \in {cx, cx + 1}}

\* the chroma plane C14 names after the edge cell at chroma position (cx, cy) was
\* filtered: a plane of cw columns and ch rows
ExpectedChromaPlane(plane, cw, ch, cx, cy, edge_type, tc) ==
    LET pairs == ChromaPairsAt(cx, cy, edge_type)
        in_plane(pos) == pos[1] >= 0 /\ pos[1] < ch /\ pos[2] >= 0 /\ pos[2] < cw
        at(pos) == pos[1] * cw + pos[2]
        delta(pr) == Clamp(TruncDiv(plane[at(pr[2])] - plane[at(pr[1])], 2), -tc, tc)
    IN  IF \E pr \in pairs : ~in_plane(pr[1]) \/ ~in_plane(pr[2])
        THEN plane
        ELSE [i \in DOMAIN plane |->
                IF \E pr \in pairs : at(pr[1]) = i
                THEN LET pr == CHOOSE pr \in pairs : at(pr[1]) = i
                     IN  Clamp(plane[i] + delta(pr), 0, 255)
                ELSE IF \E pr \in pairs : at(pr[2]) = i
                THEN LET pr == CHOOSE pr \in pairs : at(pr[2]) = i
                     IN  Clamp(plane[i] - delta(pr), 0, 255)
                ELSE plane[i]]

\* C14 as stated: an iteration of a chroma loop on a cell of bS 2 at luma (x, y)
\* changes, on Cb and on Cr (row-major, ceil(width/2) columns, ceil(height/2) rows),
\* exactly the two pairs next to the edge at chroma (x/2, y/2), each by
\* delta = clamp((q0 - p0)/2, -tc, +tc), and nothing when one of the four positions
\* is outside the plane; for every width, odd widths included.
C14_ChromaWindow ==
    [][(pc \in {"chroma_v", "chroma_h"} /\ pc' # "panic"
          /\ Bs(ctx, EdgeOf(pc))[idx(ctx.stride, X0 + x, Y0 + y)] = 2) =>
        LET cw == ChromaWidth(frame.width)
            ch == ChromaHeight(frame.height)
            cx == (X0 + x) \div 2
            cy == (Y0 + y) \div 2
        IN  /\ frame'.cb_plane =
                  ExpectedChromaPlane(frame.cb_plane, cw, ch, cx, cy, EdgeOf(pc), TcVal(pps))
            /\ frame'.cr_plane =
                  ExpectedChromaPlane(frame.cr_plane, cw, ch, cx, cy, EdgeOf(pc), TcVal(pps))
            /\ frame'.y_plane = frame.y_plane]_vars

\* C15: every iteration of a filter loop that filters its cell uses
\* tc = tc_table[clamp(qp_l + 2 * pps_tc_offset_div2 + 2, 0, 53)] with
\* qp_l = clamp(0 + 2 * pps_beta_offset_div2, 0, 51), the luma loop also
\* beta = beta_table[qp_l]; the chroma loop uses the same tc as the luma loop; the
\* values depend on the two PPS offsets only, not on the cell; both table indices are
\* inside 0..51 and 0..53.  Offsets (0, 0) give beta 0 and tc 0, (26, -4) give beta 64
\* and tc 10, (30, 30) give beta 64 and tc 24.
C15_Thresholds ==
    Filtered =>
        LET qp_l == Clamp(0 + 2 * pps.pps_beta_offset_div2, 0, 51)
            tc_i == Clamp(qp_l + 2 * pps.pps_tc_offset_div2 + 2, 0, 53)
            offsets == <<pps.pps_beta_offset_div2, pps.pps_tc_offset_div2>>
        IN  /\ qp_l \in 0..51
            /\ tc_i \in 0..53
            /\ Len(BETA_TABLE) = 52
            /\ Len(TC_TABLE) = 54
            /\ last.tc = TC_TABLE[tc_i + 1]
            /\ last.op = "luma" => last.beta = BETA_TABLE[qp_l + 1]
            /\ offsets = <<0, 0>> => (last.tc = 0 /\ (last.op = "luma" => last.beta = 0))
            /\ offsets = <<26, -4>> => (last.tc = 10 /\ (last.op = "luma" => last.beta = 64))
            /\ offsets = <<30, 30>> => (last.tc = 24 /\ (last.op = "luma" => last.beta = 64))

\* a chroma step has filtered its cell with tc = 10: offsets (26, -4), where qp_l is
\* clamped from 52 to 51, and a luma step of the same call used the same tc
C15_Witness ==
    /\ last.op = "chroma"
    /\ last.bs = 2
    /\ last.changed_cb # {}
    /\ pps.pps_beta_offset_div2 = 26
    /\ pps.pps_tc_offset_div2 = -4
    /\ last.tc = 10
    /\ frame.y_plane # PreFilter.y_plane

AllZero(table) == \A i \in DOMAIN table : table[i] = 0

\* the cell at <<column, row>> of its top-left sample lies in the clipped rectangle of
\* the CTB that is being processed
InCurrentCtb(cell) ==
    /\ cell[1] >= X0 /\ cell[1] < X0 + ctb_width
    /\ cell[2] >= Y0 /\ cell[2] < Y0 + ctb_height

\* C16: when the first step of a CTB starts (right after the clear that opens its
\* processing) the two edge-flag tables and the two bS tables are all zero; in every
\* state of the CTB's eight steps every cell with a set flag or a non-zero bS lies in
\* the CTB's clipped rectangle; a cell has a non-zero bS of an orientation only if
\* its flag of that orientation is set.  So a filter step never reads a flag or a bS
\* that an earlier CTB left.
C16_ContextLifecycle ==
    /\ pc = "mark_v" =>
          /\ AllZero(ctx.ver_edge_flags) /\ AllZero(ctx.hor_edge_flags)
          /\ AllZero(ctx.ver_bs) /\ AllZero(ctx.hor_bs)
    /\ pc \in CtbSteps =>
          \A cell \in FlaggedCells(ctx.ver_edge_flags) \cup FlaggedCells(ctx.hor_edge_flags)
                       \cup FlaggedCells(ctx.ver_bs) \cup FlaggedCells(ctx.hor_bs) :
              InCurrentCtb(cell)
    /\ \A i \in DOMAIN ctx.ver_bs : ctx.ver_bs[i] # 0 => ctx.ver_edge_flags[i] # 0
    /\ \A i \in DOMAIN ctx.hor_bs : ctx.hor_bs[i] # 0 => ctx.hor_edge_flags[i] # 0

\* the horizontal filtering of a second CTB runs with flags and bS of its own in both
\* orientations, after the first CTB had set flags and bS of its own
C16_Witness ==
    /\ pc = "luma_h"
    /\ ctb_x = 1
    /\ input.kind = "intra"
    /\ frame.width > 24
    /\ FlaggedCells(ctx.ver_bs) # {}
    /\ FlaggedCells(ctx.hor_bs) # {}
    /\ \E cell \in FlaggedCells(ctx.ver_bs) : cell[1] > X0

Returned(f) == calls[f].pc = "returned"

\* the call handed an item's data to the HEVC decoder
Decoding(f) == calls[f].result \in {"hevc::decode_with_config", "hevc::decode"}

\* the call returned an error that the facade raised
FacadeError(f) ==
    calls[f].result \in {"NoPrimaryImage", "InvalidData: Grid has no tile items",
                         "InvalidData: Tile item not found", "InvalidData: Item not found",
                         "InvalidData: Missing image data"}

\* the types of the entries of the item table, in order
EntryTypes == [k \in DOMAIN container.item_infos |-> container.item_infos[k].item_type]

\* the entry of the item table that carries the primary item id, 0 if there is none
PrimaryEntry ==
    IF \E k \in DOMAIN container.item_infos :
            container.item_infos[k].item_id = container.primary_item_id
    THEN CHOOSE k \in DOMAIN container.item_infos :
            /\ container.item_infos[k].item_id = container.primary_item_id
            /\ \A j \in 1..(k - 1) : container.item_infos[j].item_id # container.primary_item_id
    ELSE 0

PrimaryIsGrid == PrimaryEntry # 0 /\ EntryTypes[PrimaryEntry] = "grid"

\* the id C17 names: the first hvc1 entry's for a grid primary item, otherwise the
\* primary item's; 0 if there is no such item
ExpectedItemId ==
    IF PrimaryEntry = 0 THEN 0
    ELSE IF ~PrimaryIsGrid THEN container.primary_item_id
    ELSE IF \E k \in DOMAIN EntryTypes : EntryTypes[k] = "hvc1"
         THEN container.item_infos[CHOOSE k \in DOMAIN EntryTypes :
                  EntryTypes[k] = "hvc1" /\ \A j \in 1..(k - 1) : EntryTypes[j] # "hvc1"].item_id
         ELSE 0

\* what C17 says of a call that has returned
ResolvedAsClaimed(f) ==
    /\ PrimaryEntry = 0 => calls[f].result = "NoPrimaryImage"
    /\ (PrimaryEntry # 0 /\ ExpectedItemId = 0) => (FacadeError(f) /\ ~Decoding(f))
    /\ (ExpectedItemId # 0 /\ ExpectedItemId \notin container.data) =>
            (FacadeError(f) /\ ~Decoding(f) /\ calls[f].item_id = ExpectedItemId)
    /\ (ExpectedItemId # 0 /\ ExpectedItemId \in container.data) =>
            (Decoding(f) /\ calls[f].item_id = ExpectedItemId
                /\ calls[f].item[1].id = ExpectedItemId)

\* C17: on the same parsed container decode and decode_to_frame select the same
\* item: the primary item, or for a primary item of type grid the first entry of
\* item_infos of type hvc1; both return NoPrimaryImage when there is no primary item;
\* both return an error and hand nothing to the HEVC decoder when the primary item is
\* a grid and no entry is hvc1, or when the data of the selected item does not
\* resolve; otherwise both hand the selected item to the same HEVC entry point.
C17_ItemResolution ==
    /\ Returned("decode") => ResolvedAsClaimed("decode")
    /\ Returned("decode_to_frame") => ResolvedAsClaimed("decode_to_frame")
    /\ (Returned("decode") /\ Returned("decode_to_frame")) =>
          /\ calls.decode.item_id = calls.decode_to_frame.item_id
          /\ calls.decode.item = calls.decode_to_frame.item
          /\ calls.decode.result = calls.decode_to_frame.result

\* both calls have returned on a container whose primary item is a grid and whose
\* item table holds two hvc1 entries of different ids: both selected the first
C17_Witness ==
    /\ Returned("decode")
    /\ Returned("decode_to_frame")
    /\ PrimaryIsGrid
    /\ Len(container.item_infos) = 3
    /\ EntryTypes[2] = "hvc1"
    /\ EntryTypes[3] = "hvc1"
    /\ container.item_infos[2].item_id # container.item_infos[3].item_id
    /\ Decoding("decode")
    /\ Decoding("decode_to_frame")
    /\ calls.decode_to_frame.item_id = container.item_infos[2].item_id

DefaultOffsets == pps.pps_beta_offset_div2 = 0 /\ pps.pps_tc_offset_div2 = 0

\* C18: with both PPS offsets 0 an enabled call leaves every sample of Y, Cb and Cr
\* as it was, in every state of the call and at its end, for every metadata and
\* picture size: the tc of every filter step is tc_table[2] = 0.
C18_DefaultOffsetsNoChange ==
    (DefaultOffsets /\ ~Disabled) =>
        /\ frame = PreFilter
        /\ TC_TABLE[2 + 1] = 0
        /\ Filtered => last.tc = 0
        /\ last.changed_y = {} /\ last.changed_cb = {} /\ last.changed_cr = {}

\* with both offsets 0, a luma step has run the strong filter on a horizontal edge
\* of a picture of odd width, over a window with a pair of different samples
C18_Witness ==
    /\ DefaultOffsets
    /\ ~Disabled
    /\ last.op = "luma"
    /\ last.edge_type = Horizontal
    /\ last.bs = 2
    /\ last.written # {}
    /\ frame.width % 2 = 1
    /\ \E i \in last.written : i + frame.width \in last.written
                                 /\ frame.y_plane[i] # frame.y_plane[i + frame.width]

LegalOffsetsUsed ==
    <<pps.pps_beta_offset_div2, pps.pps_tc_offset_div2>> \in LegalOffsets

AllIntra == \A i \in DOMAIN metadata.pred_mode : metadata.pred_mode[i] = 1

PairChromaPSide == IF input.edge_type = Vertical THEN {0, 2} ELSE {0, 1}

PairChromaQOf(i) == IF input.edge_type = Vertical THEN i + 1 ELSE i + 2

\* the pair <<a, b>> written for the pair <<p0, q0>> keeps the sum and stays inside
\* the range the two samples span
SumAndRangeKept(a, b, p0, q0) ==
    /\ a + b = p0 + q0
    /\ a \in Min(p0, q0)..Max(p0, q0)
    /\ b \in Min(p0, q0)..Max(p0, q0)

\* C20: a step of the strong luma, the weak luma or the chroma filter on a pair p0,
\* q0 in 0..255 (tc >= 0) keeps the sum p0 + q0 and leaves both samples inside
\* min(p0, q0)..max(p0, q0); the value before the clamp to 0..255 is already the
\* value written.
C20_SumAndRange ==
    LET p0 == input.p0
        q0 == input.q0
        tc == TcVal(pps)
    IN  /\ tc >= 0
        /\ pc = "strong" =>
              \A i \in PairPSide :
                 /\ SumAndRangeKept(frame.y_plane[i], frame.y_plane[PairQOf(i)], p0, q0)
                 /\ frame.y_plane[i] = p0 + TruncDiv(Clamp(q0 - p0, -tc, tc), 2)
                 /\ frame.y_plane[PairQOf(i)] = q0 - TruncDiv(Clamp(q0 - p0, -tc, tc), 2)
        /\ pc = "weak" =>
              \A i \in PairPSide :
                 /\ SumAndRangeKept(frame.y_plane[i], frame.y_plane[PairQOf(i)], p0, q0)
                 /\ frame.y_plane[i] = p0 + Clamp(TruncDiv(9 * (q0 - p0), 16), -tc, tc)
                 /\ frame.y_plane[PairQOf(i)] = q0 - Clamp(TruncDiv(9 * (q0 - p0), 16), -tc, tc)
        /\ pc = "chroma" =>
              \A i \in PairChromaPSide :
                 /\ SumAndRangeKept(frame.cb_plane[i], frame.cb_plane[PairChromaQOf(i)], p0, q0)
                 /\ SumAndRangeKept(frame.cr_plane[i], frame.cr_plane[PairChromaQOf(i)], q0, p0)
                 /\ frame.cb_plane[i] = p0 + Clamp(TruncDiv(q0 - p0, 2), -tc, tc)
                 /\ frame.cb_plane[PairChromaQOf(i)] = q0 - Clamp(TruncDiv(q0 - p0, 2), -tc, tc)
                 /\ frame.cr_plane[i] = q0 + Clamp(TruncDiv(p0 - q0, 2), -tc, tc)
                 /\ frame.cr_plane[PairChromaQOf(i)] = p0 - Clamp(TruncDiv(p0 - q0, 2), -tc, tc)

\* the chroma filter has run on the pair 0, 255 (Cb) and 255, 0 (Cr) with tc = 24:
\* the samples moved by 24 toward each other
C20_Witness ==
    /\ pc = "chroma"
    /\ input.p0 = 0
    /\ input.q0 = 255
    /\ TcVal(pps) = 24
    /\ \A i \in PairChromaPSide :
          /\ frame.cb_plane[i] = 24
          /\ frame.cb_plane[PairChromaQOf(i)] = 231
          /\ frame.cr_plane[i] = 231
          /\ frame.cr_plane[PairChromaQOf(i)] = 24

====
